---------------------------- MODULE Spec2Model ----------------------------
(***************************************************************************)
(* Model of keyboard-rhythm-capture/capture.py: the interval reducer       *)
(* (RecordingSession.get_notes), the MIDI encoder (encode_vlq,             *)
(* generate_midi) and the capture callbacks of RhythmCapture.              *)
(*                                                                         *)
(* Times are whole milliseconds.  An InputEvent is the record              *)
(* [event_type, input_type, time_ms, key_name]; key_name is a diagnostic   *)
(* label that no modelled code reads.                                      *)
(***************************************************************************)
EXTENDS Integers, Sequences, FiniteSets, TLC

(***************************************************************************)
(* Bounds of the model.                                                    *)
(***************************************************************************)
MaxLen == 3
MaxTime == 1
MaxVlq == 300
MidiMaxLen == 2
MaxClock == 2
MaxEvents == 3
MaxRecordings == 1
MaxCalls == 2

(***************************************************************************)
(* Data: the Literal types of InputEvent and the (event_type, input_type)  *)
(* pairs that the callers of add_event produce.                            *)
(***************************************************************************)
EventTypes == {"keydown", "keyup", "click", "scroll"}

InputTypes ==
  {"space", "other", "left_click", "right_click", "scroll_up", "scroll_down"}

\* InputEvent(event_type, input_type, time_ms, key_name)
InputEventNamed(et, it, t, kn) ==
  [event_type |-> et, input_type |-> it, time_ms |-> t, key_name |-> kn]

\* An InputEvent with the default key_name.
InputEvent(et, it, t) == InputEventNamed(et, it, t, "")

EventKinds ==
  ({"keydown", "keyup"} \X {"space", "other"})
    \cup ({"click"} \X {"left_click", "right_click"})
    \cup ({"scroll"} \X {"scroll_up", "scroll_down"})

RecordingSession ==
  [events |-> <<>>, start_time |-> 0,
   space_down |-> FALSE, other_down |-> FALSE,
   left_click_down |-> FALSE, right_click_down |-> FALSE]

(***************************************************************************)
(* get_notes.  Python's None is the empty tuple, a pending start t is <<t>>.*)
(* A note is the dict {input_type, start, end}; the extra field src is a   *)
(* history field (the index of the event that opened the interval) that    *)
(* the claims about input order read and that no modelled code reads.      *)
(***************************************************************************)
None == <<>>

PendingKeys == <<"space", "other", "left_click", "right_click">>

PendingInit ==
  [k \in {"space", "other", "left_click", "right_click"} |-> None]

SCROLL_NOTE_MS == 50

Note(it, s, e, i) == [input_type |-> it, start |-> s, end |-> e, src |-> i]

\* pending.get(k): None for a key the dict does not hold.
PendingGet(p, k) == IF k \in DOMAIN p THEN p[k] ELSE None

\* pending[k] = v, adding the key when the dict does not hold it.
PendingSet(p, k, v) ==
  [x \in (DOMAIN p) \cup {k} |-> IF x = k THEN v ELSE p[x]]

\* Line 73: a keydown overwrites the channel's pending start.
KeyDownBranch(st, e, i) ==
  [st EXCEPT !.pending = PendingSet(st.pending, e.input_type, <<e.time_ms>>),
             !.psrc = PendingSet(st.psrc, e.input_type, i)]

\* A close that forgets the pending start of every channel.
CloseBranch_ClearAll(st, e) ==
  [st EXCEPT
     !.notes = Append(st.notes,
                 Note(e.input_type, st.pending[e.input_type][1], e.time_ms,
                      st.psrc[e.input_type])),
     !.pending = [k \in DOMAIN st.pending |-> None]]

\* Lines 75-80 and 89-94: close the channel's pending interval at the event.
CloseBranch(st, e) ==
  [st EXCEPT
     !.notes = Append(st.notes,
                 Note(e.input_type, st.pending[e.input_type][1], e.time_ms,
                      st.psrc[e.input_type])),
     !.pending = PendingSet(st.pending, e.input_type, None)]

\* A click handled as a keydown is: it always opens the channel.
ClickBranch_AlwaysOpens(st, e, i) ==
  IF e.input_type \in DOMAIN st.pending
    THEN [st EXCEPT
            !.pending = PendingSet(st.pending, e.input_type, <<e.time_ms>>),
            !.psrc = PendingSet(st.psrc, e.input_type, i)]
    ELSE st

\* Lines 83-94: a click opens the channel when nothing is pending on it and
\* closes it otherwise; a click of a channel that pending does not hold is
\* dropped.
ClickBranch(st, e, i) ==
  IF e.input_type \in DOMAIN st.pending
    THEN IF st.pending[e.input_type] = None
           THEN [st EXCEPT
                   !.pending = PendingSet(st.pending, e.input_type,
                                          <<e.time_ms>>),
                   !.psrc = PendingSet(st.psrc, e.input_type, i)]
           ELSE CloseBranch(st, e)
    ELSE st

\* A scroll that is paired through pending as a click is.
ScrollBranch_Paired(st, e, i) ==
  IF PendingGet(st.pending, e.input_type) = None
    THEN [st EXCEPT
            !.pending = PendingSet(st.pending, e.input_type, <<e.time_ms>>),
            !.psrc = PendingSet(st.psrc, e.input_type, i)]
    ELSE [st EXCEPT
            !.notes = Append(st.notes,
                        Note(e.input_type, e.time_ms,
                             e.time_ms + SCROLL_NOTE_MS, i)),
            !.pending = PendingSet(st.pending, e.input_type, None)]

\* Lines 97-101: a scroll yields a note of SCROLL_NOTE_MS at once.
ScrollBranch(st, e, i) ==
  [st EXCEPT
     !.notes = Append(st.notes,
                 Note(e.input_type, e.time_ms, e.time_ms + SCROLL_NOTE_MS, i))]

\* One iteration of the for loop over self.events: st is the record of the
\* locals [notes, pending, psrc], e the event and i its index.
LoopBody(st, e, i) ==
  IF e.event_type = "keydown" THEN KeyDownBranch(st, e, i)
  ELSE IF e.event_type = "keyup"
            /\ PendingGet(st.pending, e.input_type) /= None
    THEN CloseBranch(st, e)
  ELSE IF e.event_type = "click" THEN ClickBranch(st, e, i)
  ELSE IF e.event_type = "scroll" THEN ScrollBranch(st, e, i)
  ELSE st

LoopInit ==
  [notes |-> <<>>, pending |-> PendingInit,
   psrc |-> [k \in DOMAIN PendingInit |-> 0]]

\* The locals after the loop has consumed the first n events.
RECURSIVE LoopAfter(_, _)
LoopAfter(events, n) ==
  IF n = 0 THEN LoopInit
  ELSE LoopBody(LoopAfter(events, n - 1), events[n], n)

\* final_time taken from the first event instead of the last.
FinalTime_First(events) ==
  IF Len(events) > 0 THEN events[1].time_ms ELSE 0

\* final_time = self.events[-1].time_ms if self.events else 0
FinalTime(events) ==
  IF Len(events) > 0 THEN events[Len(events)].time_ms ELSE 0

\* A close of the held keyboard channels only, the mouse buttons forgotten.
RECURSIVE CloseHeld_KeysOnly(_, _, _, _)
CloseHeld_KeysOnly(ns, st, final_time, k) ==
  IF k > 2 THEN ns
  ELSE LET it == PendingKeys[k] IN
       CloseHeld_KeysOnly(IF st.pending[it] /= None
                            THEN Append(ns, Note(it, st.pending[it][1],
                                                 final_time, st.psrc[it]))
                            ELSE ns,
                          st, final_time, k + 1)

\* "Close any still-held notes": pending.items() in insertion order.
RECURSIVE CloseHeld(_, _, _, _)
CloseHeld(ns, st, final_time, k) ==
  IF k > Len(PendingKeys) THEN ns
  ELSE LET it == PendingKeys[k] IN
       CloseHeld(IF st.pending[it] /= None
                   THEN Append(ns, Note(it, st.pending[it][1], final_time,
                                        st.psrc[it]))
                   ELSE ns,
                 st, final_time, k + 1)

\* An insertion before the elements of equal start (an unstable sort).
RECURSIVE InsertByStart_Unstable(_, _)
InsertByStart_Unstable(sorted, n) ==
  IF sorted = <<>> THEN <<n>>
  ELSE IF sorted[Len(sorted)].start < n.start THEN Append(sorted, n)
  ELSE Append(InsertByStart_Unstable(SubSeq(sorted, 1, Len(sorted) - 1), n),
              sorted[Len(sorted)])

\* Insert n after every element whose start is not greater (stable).
RECURSIVE InsertByStart(_, _)
InsertByStart(sorted, n) ==
  IF sorted = <<>> THEN <<n>>
  ELSE IF sorted[Len(sorted)].start <= n.start THEN Append(sorted, n)
  ELSE Append(InsertByStart(SubSeq(sorted, 1, Len(sorted) - 1), n),
              sorted[Len(sorted)])

\* sorted(notes, key=lambda n: n["start"]): Python's sort is stable.
RECURSIVE SortedByStart(_)
SortedByStart(ns) ==
  IF ns = <<>> THEN <<>>
  ELSE InsertByStart(SortedByStart(SubSeq(ns, 1, Len(ns) - 1)), ns[Len(ns)])

\* The value get_notes returns from the locals the loop left.
NotesReturned(st, events) ==
  SortedByStart(CloseHeld(st.notes, st, FinalTime(events), 1))

get_notes(events) == NotesReturned(LoopAfter(events, Len(events)), events)

(***************************************************************************)
(* encode_vlq.  For a Python int, value & 0x7F is value % 128 and          *)
(* value >>= 7 is the floor division by 128, negative values included.     *)
(***************************************************************************)
RECURSIVE Reversed(_)
Reversed(sq) ==
  IF sq = <<>> THEN <<>>
  ELSE Append(Reversed(SubSeq(sq, 2, Len(sq))), sq[1])

\* while value > 0: result.append((value & 0x7F) | 0x80); value >>= 7
RECURSIVE VlqLoop(_, _)
VlqLoop(res, value) ==
  IF value > 0
    THEN VlqLoop(Append(res, (value % 128) + 128), value \div 128)
    ELSE res

\* The groups of 7 bits left in the order they were produced.
encode_vlq_NotReversed(value) == VlqLoop(<<value % 128>>, value \div 128)

encode_vlq(value) == Reversed(VlqLoop(<<value % 128>>, value \div 128))

(***************************************************************************)
(* generate_midi.  Bytes are numbers 0..255, a bytes object a sequence.    *)
(***************************************************************************)
TICKS_PER_BEAT == 480

\* round(n / d) of Python 3: to the nearest integer, a tie to the even one.
RoundHalfEven(n, d) ==
  LET nn == IF d < 0 THEN -n ELSE n
      dd == IF d < 0 THEN -d ELSE d
      q == nn \div dd
      r == nn % dd
  IN IF 2 * r < dd THEN q
     ELSE IF 2 * r > dd THEN q + 1
     ELSE IF q % 2 = 0 THEN q ELSE q + 1

\* round((ms / (60000 / tempo)) * 480) = round(ms * tempo / 125).  With
\* tempo = 125 * a + b the product ms * tempo is 125 * (ms * a) + ms * b,
\* which keeps every intermediate value within 32 bits.
ms_to_ticks(ms, tempo) ==
  LET a == tempo \div 125
      b == tempo % 125
      q == ms * a + ((ms * b) \div 125)
      r == (ms * b) % 125
  IN IF 2 * r < 125 THEN q
     ELSE IF 2 * r > 125 THEN q + 1
     ELSE IF q % 2 = 0 THEN q ELSE q + 1

\* struct.pack('>I', v) and struct.pack('>H', v)
PackI(v) ==
  <<(v \div 16777216) % 256, (v \div 65536) % 256, (v \div 256) % 256, v % 256>>

PackH(v) == <<(v \div 256) % 256, v % 256>>

IsByte(x) == x \in 0 .. 255

TrackOrder ==
  <<"other", "space", "left_click", "right_click", "scroll_up", "scroll_down">>

\* track_name.encode('utf-8') of the six build_track calls.
TrackName(it) ==
  CASE it = "other" -> <<79, 116, 104, 101, 114, 32, 75, 101, 121, 115>>
    [] it = "space" -> <<83, 112, 97, 99, 101, 32, 75, 101, 121>>
    [] it = "left_click" -> <<76, 101, 102, 116, 32, 67, 108, 105, 99, 107>>
    [] it = "right_click"
         -> <<82, 105, 103, 104, 116, 32, 67, 108, 105, 99, 107>>
    [] it = "scroll_up" -> <<83, 99, 114, 111, 108, 108, 32, 85, 112>>
    [] it = "scroll_down"
         -> <<83, 99, 114, 111, 108, 108, 32, 68, 111, 119, 110>>

\* The note numbers of the space and other channels taken for one another.
DefaultNote_Swapped(it) ==
  CASE it = "other" -> 36
    [] it = "space" -> 38
    [] it = "left_click" -> 40
    [] it = "right_click" -> 41
    [] it = "scroll_up" -> 42
    [] it = "scroll_down" -> 44

\* The default note numbers of generate_midi's signature.
DefaultNote(it) ==
  CASE it = "other" -> 38
    [] it = "space" -> 36
    [] it = "left_click" -> 40
    [] it = "right_click" -> 41
    [] it = "scroll_up" -> 42
    [] it = "scroll_down" -> 44

\* [n for n in notes if n["input_type"] == it]
RECURSIVE NotesFor(_, _)
NotesFor(ns, it) ==
  IF ns = <<>> THEN <<>>
  ELSE IF ns[1].input_type = it
    THEN <<ns[1]>> \o NotesFor(SubSeq(ns, 2, Len(ns)), it)
    ELSE NotesFor(SubSeq(ns, 2, Len(ns)), it)

\* Lines 154-157: an "on" and an "off" per note, in the order of the notes.
RECURSIVE MidiEvents(_, _)
MidiEvents(track_notes, tempo) ==
  IF track_notes = <<>> THEN <<>>
  ELSE <<[time |-> ms_to_ticks(track_notes[1].start, tempo), type |-> "on"],
         [time |-> ms_to_ticks(track_notes[1].end, tempo), type |-> "off"]>>
       \o MidiEvents(SubSeq(track_notes, 2, Len(track_notes)), tempo)

RECURSIVE InsertByTime(_, _)
InsertByTime(sorted, e) ==
  IF sorted = <<>> THEN <<e>>
  ELSE IF sorted[Len(sorted)].time <= e.time THEN Append(sorted, e)
  ELSE Append(InsertByTime(SubSeq(sorted, 1, Len(sorted) - 1), e),
              sorted[Len(sorted)])

\* midi_events.sort(key=lambda e: e["time"]): stable.
RECURSIVE SortedByTime(_)
SortedByTime(es) ==
  IF es = <<>> THEN <<>>
  ELSE InsertByTime(SortedByTime(SubSeq(es, 1, Len(es) - 1)), es[Len(es)])

\* The delta of an event: its tick less last_time.
DeltaOf(time, last_time) == time - last_time

\* Lines 162-172 from event k on.  tr is [ok, data, deltas]: deltas is the
\* history of the values passed to encode_vlq; ok turns FALSE when bytes()
\* raises ValueError for an element outside range(256), and the loop ends.
RECURSIVE TrackLoop(_, _, _, _, _, _)
TrackLoop(tr, es, k, last_time, note_num, velocity) ==
  IF k > Len(es) THEN tr
  ELSE
    LET delta == DeltaOf(es[k].time, last_time)
        status == IF es[k].type = "on"
                    THEN <<144, note_num, velocity>>
                    ELSE <<128, note_num, 0>>
        raises == \E n \in 1 .. 3 : ~IsByte(status[n])
        after == [tr EXCEPT !.deltas = Append(@, delta),
                            !.data = @ \o encode_vlq(delta)]
    IN IF raises THEN [after EXCEPT !.ok = FALSE]
       ELSE TrackLoop([after EXCEPT !.data = @ \o status],
                      es, k + 1, es[k].time, note_num, velocity)

\* build_track: [ok, data, deltas, events]; events is the sorted
\* midi_events list.
build_track(track_notes, track_name, note_num, tempo, velocity) ==
  LET es == SortedByTime(MidiEvents(track_notes, tempo))
      head == <<0, 255, 3, Len(track_name)>> \o track_name
      tr == TrackLoop([ok |-> TRUE, data |-> head, deltas |-> <<>>],
                      es, 1, 0, note_num, velocity)
  IN [ok |-> tr.ok,
      data |-> IF tr.ok THEN tr.data \o <<0, 255, 47, 0>> ELSE tr.data,
      deltas |-> tr.deltas,
      events |-> es]

\* us_per_beat = round(60_000_000 / tempo)
UsPerBeat(tempo) == RoundHalfEven(60000000, tempo)

\* build_tempo_track, for a us_per_beat that struct.pack accepts.
build_tempo_track(tempo) ==
  <<0, 255, 3, 5, 84, 101, 109, 112, 111>>
    \o <<0, 255, 81, 3>> \o SubSeq(PackI(UsPerBeat(tempo)), 2, 4)
    \o <<0, 255, 88, 4, 4, 2, 24, 8>>
    \o <<0, 255, 47, 0>>

\* The build_track calls of lines 210-215 from track k on, in order; the
\* first call that raises ends the sequence.
RECURSIVE BuildTracks(_, _, _, _, _)
BuildTracks(built, notes, k, tempo, velocity) ==
  IF k > Len(TrackOrder) THEN built
  ELSE LET it == TrackOrder[k]
           tr == build_track(NotesFor(notes, it), TrackName(it),
                             DefaultNote(it), tempo, velocity)
       IN IF tr.ok
            THEN BuildTracks(Append(built, tr), notes, k + 1, tempo, velocity)
            ELSE Append(built, tr)

\* Lines 229-232: MTrk, length and body of every track.
RECURSIVE Chunks(_)
Chunks(tracks) ==
  IF tracks = <<>> THEN <<>>
  ELSE <<77, 84, 114, 107>> \o PackI(Len(tracks[1])) \o tracks[1]
       \o Chunks(SubSeq(tracks, 2, Len(tracks)))

\* A header whose track count leaves out the tempo track.
Header_ChannelsOnly(ntracks) ==
  <<77, 84, 104, 100>> \o PackI(6) \o PackH(1) \o PackH(ntracks - 1)
    \o PackH(TICKS_PER_BEAT)

\* Lines 221-225.
Header(ntracks) ==
  <<77, 84, 104, 100>> \o PackI(6) \o PackH(1) \o PackH(ntracks)
    \o PackH(TICKS_PER_BEAT)

\* generate_midi(session, tempo, velocity=velocity) with the default note
\* numbers.  The value is [status, data, tracks]: status "ok" with the bytes
\* returned, or the exception raised; tracks holds the build_track calls
\* made, the one that raised included.
\*   tempo = 0: 60000 / tempo raises ZeroDivisionError (line 139);
\*   us_per_beat < 0: struct.pack('>I', ...) raises struct.error (line 190)
\*     (us_per_beat is at most 60,000,000, so never too large);
\*   a status or data byte outside range(256): ValueError (lines 168-170).
generate_midi(events, tempo, velocity) ==
  IF tempo = 0
    THEN [status |-> "ZeroDivisionError", data |-> <<>>, tracks |-> <<>>]
  ELSE IF UsPerBeat(tempo) < 0
    THEN [status |-> "struct.error", data |-> <<>>, tracks |-> <<>>]
  ELSE
    LET built == BuildTracks(<<>>, get_notes(events), 1, tempo, velocity)
        okAll == \A k \in 1 .. Len(built) : built[k].ok
        bodies == <<build_tempo_track(tempo)>>
                    \o [k \in 1 .. Len(built) |-> built[k].data]
    IN IF okAll
         THEN [status |-> "ok",
               data |-> Header(Len(bodies)) \o Chunks(bodies),
               tracks |-> built]
         ELSE [status |-> "ValueError", data |-> <<>>, tracks |-> built]

(***************************************************************************)
(* State.                                                                  *)
(***************************************************************************)
VARIABLES
  session,   \* the RecordingSession object
  gnPc,      \* position in get_notes: "idle", "loop", "done"
  idx,       \* index of the next event of the for loop
  loc,       \* get_notes's locals: [notes, pending, psrc]
  result,    \* the list get_notes returned
  calls,     \* the number of get_notes calls that have returned
  vlqPc,     \* position of the encode_vlq call: "call", "ret"
  vlqValue,  \* encode_vlq's argument
  vlqBytes,  \* encode_vlq's return value
  midiPc,    \* "idle", then "returned" or "raised" after a call
  midiArgs,  \* [tempo, velocity] of the call
  midiOut,   \* what generate_midi did: [status, data, tracks]
  files,     \* the output files export_files has written
  sessions,  \* every RecordingSession object created, by identity
  cur,       \* self.session: the identity of the current session object
  is_recording,
  should_exit,
  esc_tap_times,
  esc_history, \* history: the times of the ESC releases since the last clear
  clock,     \* time.perf_counter(), in whole seconds
  mainPc,    \* position of main
  kbAlive,   \* the keyboard listener thread runs
  mouseAlive,\* the mouse listener delivers events
  th         \* the position and locals of the callback each listener runs

reduceVars == <<gnPc, idx, loc, result, calls>>
vlqVars == <<vlqPc, vlqValue, vlqBytes>>
midiVars == <<midiPc, midiArgs, midiOut, files>>
captureVars ==
  <<sessions, cur, is_recording, should_exit, esc_tap_times, esc_history,
    clock, mainPc, kbAlive, mouseAlive, th>>

vars == <<session, reduceVars, vlqVars, midiVars, captureVars>>

NoCall == [status |-> "none", data |-> <<>>, tracks |-> <<>>]

ReduceIdle ==
  /\ gnPc = "idle"
  /\ idx = 0
  /\ loc = LoopInit
  /\ result = <<>>
  /\ calls = 0

VlqIdle ==
  /\ vlqPc = "call"
  /\ vlqValue = 0
  /\ vlqBytes = <<>>

MidiIdle ==
  /\ midiPc = "idle"
  /\ midiArgs = [tempo |-> 120, velocity |-> 100]
  /\ midiOut = NoCall
  /\ files = {}

\* A listener thread that runs no callback.
Idle ==
  [pc |-> "idle", et |-> "", it |-> "", key |-> "", pressed |-> FALSE,
   t |-> 0, s |-> 0, k |-> 0, ret |-> ""]

\* RhythmCapture.__init__, before main's loop.
CaptureInit ==
  /\ sessions = <<RecordingSession>>
  /\ cur = 1
  /\ is_recording = FALSE
  /\ should_exit = FALSE
  /\ esc_tap_times = <<>>
  /\ esc_history = <<>>
  /\ clock = 0
  /\ mainPc = "menu"
  /\ kbAlive = FALSE
  /\ mouseAlive = FALSE
  /\ th = [x \in {"kb", "mouse"} |-> Idle]

(***************************************************************************)
(* Specification of the reducer: a session is given any event list of the  *)
(* bounded alphabet (the dataclass accepts any list), then get_notes runs. *)
(***************************************************************************)
Times == 0 .. MaxTime

InitReduce ==
  /\ session = RecordingSession
  /\ ReduceIdle
  /\ VlqIdle
  /\ MidiIdle
  /\ CaptureInit

\* RecordingSession.events receives one more event.
PutEvent ==
  /\ gnPc = "idle"
  /\ Len(session.events) < MaxLen
  /\ \E k \in EventKinds, t \in Times :
       session' = [session EXCEPT
                     !.events = Append(@, InputEvent(k[1], k[2], t))]
  /\ UNCHANGED <<reduceVars, vlqVars, midiVars, captureVars>>

\* get_notes, lines 67-69.
GetNotesBegin ==
  /\ gnPc = "idle"
  /\ gnPc' = "loop"
  /\ idx' = 1
  /\ loc' = LoopInit
  /\ UNCHANGED <<session, result, calls, vlqVars, midiVars, captureVars>>

\* get_notes, one iteration of the loop of lines 71-101.
GetNotesLoop ==
  /\ gnPc = "loop"
  /\ idx <= Len(session.events)
  /\ loc' = LoopBody(loc, session.events[idx], idx)
  /\ idx' = idx + 1
  /\ UNCHANGED <<session, gnPc, result, calls, vlqVars, midiVars,
                 captureVars>>

\* A return that closes the first held channel in the session itself, with
\* a keyup appended to self.events.
GetNotesReturn_ClosesInSession ==
  /\ gnPc = "loop"
  /\ idx > Len(session.events)
  /\ result' = NotesReturned(loc, session.events)
  /\ gnPc' = "done"
  /\ calls' = calls + 1
  /\ session' =
       [session EXCEPT
          !.events =
            IF \E k \in DOMAIN loc.pending : loc.pending[k] /= None
              THEN Append(@, InputEvent("keyup",
                               CHOOSE k \in DOMAIN loc.pending :
                                 loc.pending[k] /= None,
                               FinalTime(@)))
              ELSE @]
  /\ UNCHANGED <<idx, loc, vlqVars, midiVars, captureVars>>

\* get_notes, lines 103-109.
GetNotesReturn ==
  /\ gnPc = "loop"
  /\ idx > Len(session.events)
  /\ result' = NotesReturned(loc, session.events)
  /\ gnPc' = "done"
  /\ calls' = calls + 1
  /\ UNCHANGED <<session, idx, loc, vlqVars, midiVars, captureVars>>

NextReduce == PutEvent \/ GetNotesBegin \/ GetNotesLoop \/ GetNotesReturn

SpecReduce == InitReduce /\ [][NextReduce]_vars

(***************************************************************************)
(* Specification of encode_vlq: one call on a value of VlqValues.          *)
(***************************************************************************)
VlqValues ==
  (0 .. MaxVlq) \cup {16383, 16384, 2097151, 2097152, 268435455, 268435456}

InitVlq ==
  /\ session = RecordingSession
  /\ ReduceIdle
  /\ MidiIdle
  /\ CaptureInit
  /\ vlqPc = "call"
  /\ vlqValue \in VlqValues
  /\ vlqBytes = <<>>

EncodeVlq ==
  /\ vlqPc = "call"
  /\ vlqBytes' = encode_vlq(vlqValue)
  /\ vlqPc' = "ret"
  /\ UNCHANGED <<session, vlqValue, reduceVars, midiVars, captureVars>>

NextVlq == EncodeVlq

SpecVlq == InitVlq /\ [][NextVlq]_vars

(***************************************************************************)
(* Specification of the encoder: a session is given an event list, then    *)
(* generate_midi or export_files is called once with a tempo and a         *)
(* velocity; neither function validates them, so every int is an input.    *)
(***************************************************************************)
MidiTimes == {0, 1, 250}

\* The arguments of a call: each invalid or boundary tempo with the default
\* velocity (3 and 4 are the tempos on either side of a us_per_beat of
\* 2^24), and each velocity at and around the bounds with the default tempo.
MidiInputs ==
  {[tempo |-> t, velocity |-> 100] : t \in {-120000001, -1, 0, 3, 4, 120}}
    \cup {[tempo |-> 120, velocity |-> v] : v \in {0, 1, 127, 128, 256}}

InitMidi ==
  /\ session = RecordingSession
  /\ ReduceIdle
  /\ VlqIdle
  /\ MidiIdle
  /\ CaptureInit

MidiPutEvent ==
  /\ midiPc = "idle"
  /\ Len(session.events) < MidiMaxLen
  /\ \E k \in EventKinds, t \in MidiTimes :
       session' = [session EXCEPT
                     !.events = Append(@, InputEvent(k[1], k[2], t))]
  /\ UNCHANGED <<reduceVars, vlqVars, midiVars, captureVars>>

\* A call of generate_midi: it returns bytes or raises.
GenerateMidi ==
  /\ midiPc = "idle"
  /\ \E args \in MidiInputs :
       LET out == generate_midi(session.events, args.tempo, args.velocity) IN
       /\ midiArgs' = args
       /\ midiOut' = out
       /\ midiPc' = IF out.status = "ok" THEN "returned" ELSE "raised"
  /\ UNCHANGED <<session, files, reduceVars, vlqVars, captureVars>>

\* A call of export_files: nothing for an empty session; otherwise
\* generate_midi, whose exception leaves the call before any write_bytes or
\* write_text, then the three files.
ExportFiles ==
  /\ midiPc = "idle"
  /\ \E args \in MidiInputs :
       /\ midiArgs' = args
       /\ IF session.events = <<>>
            THEN /\ midiOut' = NoCall
                 /\ midiPc' = "returned"
                 /\ files' = files
            ELSE LET out == generate_midi(session.events, args.tempo,
                                          args.velocity) IN
                 /\ midiOut' = out
                 /\ midiPc' = IF out.status = "ok" THEN "returned" ELSE "raised"
                 /\ files' = IF out.status = "ok"
                               THEN files \cup {"mid", "json", "csv"}
                               ELSE files
  /\ UNCHANGED <<session, reduceVars, vlqVars, captureVars>>

NextMidi == MidiPutEvent \/ GenerateMidi \/ ExportFiles

SpecMidi == InitMidi /\ [][NextMidi]_vars

(***************************************************************************)
(* Specification of repeated calls: a session holds any event list of the  *)
(* bounded alphabet; get_notes is called on it MaxCalls times, or not at   *)
(* all, and then generate_midi twice with the same settings.               *)
(***************************************************************************)
PureTimes == {0, 250}

PureEvents ==
  {InputEvent(k[1], k[2], t) : k \in EventKinds, t \in PureTimes}

\* The event lists of at most MidiMaxLen events.
PureSessions == UNION {[1 .. n -> PureEvents] : n \in 0 .. MidiMaxLen}

InitPure ==
  /\ \E es \in PureSessions : session = [RecordingSession EXCEPT !.events = es]
  /\ ReduceIdle
  /\ VlqIdle
  /\ MidiIdle
  /\ CaptureInit

\* The first call of get_notes, before any call of generate_midi.
PureGetNotesBegin == midiPc = "idle" /\ GetNotesBegin

\* One more call of get_notes on the same session, lines 67-69.
GetNotesAgain ==
  /\ gnPc = "done"
  /\ calls < MaxCalls
  /\ midiPc = "idle"
  /\ gnPc' = "loop"
  /\ idx' = 1
  /\ loc' = LoopInit
  /\ UNCHANGED <<session, result, calls, vlqVars, midiVars, captureVars>>

\* The first call of generate_midi, once the get_notes calls are over.
PureGenerateMidi ==
  /\ gnPc = "idle" \/ (gnPc = "done" /\ calls = MaxCalls)
  /\ GenerateMidi

\* A second call of generate_midi on the same session with the same tempo
\* and velocity: it returns bytes or raises.
GenerateMidiAgain ==
  /\ midiPc \in {"returned", "raised"}
  /\ midiOut' = generate_midi(session.events, midiArgs.tempo,
                              midiArgs.velocity)
  /\ midiPc' = "again"
  /\ UNCHANGED <<session, midiArgs, files, reduceVars, vlqVars, captureVars>>

NextPure ==
  \/ PureGetNotesBegin
  \/ GetNotesLoop
  \/ GetNotesReturn
  \/ GetNotesAgain
  \/ PureGenerateMidi
  \/ GenerateMidiAgain

SpecPure == InitPure /\ [][NextPure]_vars

(***************************************************************************)
(* Specification of the capture: main starts a recording and the two       *)
(* listeners; the keyboard listener thread runs on_press and on_release    *)
(* (and stop_recording, called from on_release), the mouse listener thread *)
(* runs on_click and on_scroll.  No lock protects the shared objects, so   *)
(* the threads interleave between any two accesses of shared state: a      *)
(* callback is a sequence of steps, one per access.  The clock is          *)
(* time.perf_counter() in whole seconds, so time_ms is a multiple of 1000. *)
(***************************************************************************)
ESC_TAP_COUNT == 3
ESC_TAP_WINDOW == 1

Keys == {"space", "a", "esc"}

\* key_name: key.char for a character key, str(key) for a special key.
KeyName(key) ==
  CASE key = "space" -> "Key.space"
    [] key = "esc" -> "Key.esc"
    [] OTHER -> key

\* The down flag of a sustained channel.
FlagOf(it) ==
  CASE it = "space" -> "space_down"
    [] it = "other" -> "other_down"
    [] it = "left_click" -> "left_click_down"
    [] it = "right_click" -> "right_click_down"

\* The order in which stop_recording closes the held inputs, and the event
\* type it records for each.
StopOrder == <<"space", "other", "left_click", "right_click">>

StopEventType(it) == IF it \in {"space", "other"} THEN "keyup" ELSE "click"

RECURSIVE SumLen(_, _)
SumLen(ss, n) == IF n = 0 THEN 0 ELSE Len(ss[n].events) + SumLen(ss, n - 1)

\* The events recorded so far, in all sessions.
TotalEvents == SumLen(sessions, Len(sessions))

Recordings == Len(sessions) - 1

InitCapture ==
  /\ session = RecordingSession
  /\ ReduceIdle
  /\ VlqIdle
  /\ MidiIdle
  /\ CaptureInit

\* The variables that no capture action but on_release(Key.esc) changes.
otherVars == <<session, reduceVars, vlqVars, midiVars, esc_history>>

\* time.perf_counter() advances.
Tick ==
  /\ clock < MaxClock
  /\ clock' = clock + 1
  /\ UNCHANGED <<sessions, cur, is_recording, should_exit, esc_tap_times,
                 mainPc, kbAlive, mouseAlive, th, otherVars>>

\* main, choice 'r': start_recording line 436.
StartRecording436 ==
  /\ mainPc = "menu"
  /\ Recordings < MaxRecordings
  /\ sessions' = Append(sessions, RecordingSession)
  /\ cur' = Len(sessions) + 1
  /\ mainPc' = "start_437"
  /\ UNCHANGED <<is_recording, should_exit, esc_tap_times, clock, kbAlive,
                 mouseAlive, th, otherVars>>

\* start_recording line 437.
StartRecording437 ==
  /\ mainPc = "start_437"
  /\ sessions' = [sessions EXCEPT ![cur].start_time = clock]
  /\ mainPc' = "start_438"
  /\ UNCHANGED <<cur, is_recording, should_exit, esc_tap_times, clock,
                 kbAlive, mouseAlive, th, otherVars>>

\* start_recording line 438 and its return.
StartRecording438 ==
  /\ mainPc = "start_438"
  /\ is_recording' = TRUE
  /\ mainPc' = "start_kb"
  /\ UNCHANGED <<sessions, cur, should_exit, esc_tap_times, clock, kbAlive,
                 mouseAlive, th, otherVars>>

\* main line 563: keyboard_listener.start().
StartKeyboardListener ==
  /\ mainPc = "start_kb"
  /\ kbAlive' = TRUE
  /\ mainPc' = "start_mouse"
  /\ UNCHANGED <<sessions, cur, is_recording, should_exit, esc_tap_times,
                 clock, mouseAlive, th, otherVars>>

\* main line 564: mouse_listener.start().
StartMouseListener ==
  /\ mainPc = "start_mouse"
  /\ mouseAlive' = TRUE
  /\ mainPc' = "join"
  /\ UNCHANGED <<sessions, cur, is_recording, should_exit, esc_tap_times,
                 clock, kbAlive, th, otherVars>>

\* main line 567: keyboard_listener.join() returns once the thread ended.
JoinKeyboardListener ==
  /\ mainPc = "join"
  /\ ~kbAlive
  /\ mainPc' = "mouse_stop"
  /\ UNCHANGED <<sessions, cur, is_recording, should_exit, esc_tap_times,
                 clock, kbAlive, mouseAlive, th, otherVars>>

\* main lines 570-573: mouse_listener.stop() does not wait for a callback
\* that is running; then the menu again, or the end of the loop.
StopMouseListener ==
  /\ mainPc = "mouse_stop"
  /\ mouseAlive' = FALSE
  /\ mainPc' = IF should_exit THEN "exit" ELSE "menu"
  /\ UNCHANGED <<sessions, cur, is_recording, should_exit, esc_tap_times,
                 clock, kbAlive, th, otherVars>>

\* The callbacks under way that have yet to append their event.
InFlight == Cardinality({x \in DOMAIN th : th[x].pc /= "idle" /\ th[x].ret = "callback"})

\* A listener may deliver a new event to its callback.  MaxEvents bounds
\* the events that callbacks record (stop_recording's closing events come
\* on top).
CanDeliver(x) ==
  /\ th[x].pc = "idle"
  /\ IF x = "kb" THEN kbAlive ELSE mouseAlive
  /\ TotalEvents + InFlight < MaxEvents

\* An on_press without the test of the down flag ("Ignore key repeat").
OnPress_NoRepeatTest ==
  /\ CanDeliver("kb")
  /\ \E key \in Keys :
       LET it == IF key = "space" THEN "space" ELSE "other" IN
       IF is_recording
         THEN /\ sessions' = [sessions EXCEPT ![cur][FlagOf(it)] = TRUE]
              /\ th' = [th EXCEPT !.kb = [Idle EXCEPT !.pc = "add_clock",
                                                      !.et = "keydown",
                                                      !.it = it,
                                                      !.key = KeyName(key),
                                                      !.ret = "callback"]]
         ELSE UNCHANGED <<sessions, th>>
  /\ UNCHANGED <<cur, is_recording, should_exit, esc_tap_times, clock, mainPc,
                 kbAlive, mouseAlive, otherVars>>

\* on_press(key), lines 279-299: the guard, the repeat test, the flag.
OnPress ==
  /\ CanDeliver("kb")
  /\ \E key \in Keys :
       LET it == IF key = "space" THEN "space" ELSE "other" IN
       IF is_recording /\ ~sessions[cur][FlagOf(it)]
         THEN /\ sessions' = [sessions EXCEPT ![cur][FlagOf(it)] = TRUE]
              /\ th' = [th EXCEPT !.kb = [Idle EXCEPT !.pc = "add_clock",
                                                      !.et = "keydown",
                                                      !.it = it,
                                                      !.key = KeyName(key),
                                                      !.ret = "callback"]]
         ELSE UNCHANGED <<sessions, th>>
  /\ UNCHANGED <<cur, is_recording, should_exit, esc_tap_times, clock, mainPc,
                 kbAlive, mouseAlive, otherVars>>

\* on_release(key) for a key other than ESC, lines 328-346.
OnRelease ==
  /\ CanDeliver("kb")
  /\ \E key \in Keys \ {"esc"} :
       LET it == IF key = "space" THEN "space" ELSE "other" IN
       IF is_recording /\ sessions[cur][FlagOf(it)]
         THEN /\ sessions' = [sessions EXCEPT ![cur][FlagOf(it)] = FALSE]
              /\ th' = [th EXCEPT !.kb = [Idle EXCEPT !.pc = "add_clock",
                                                      !.et = "keyup",
                                                      !.it = it,
                                                      !.key = KeyName(key),
                                                      !.ret = "callback"]]
         ELSE UNCHANGED <<sessions, th>>
  /\ UNCHANGED <<cur, is_recording, should_exit, esc_tap_times, clock, mainPc,
                 kbAlive, mouseAlive, otherVars>>

\* A tap list that is never pruned.
WithinWindow_KeepsAll(taps, now) == taps

\* [t for t in esc_tap_times if now - t <= ESC_TAP_WINDOW]
RECURSIVE WithinWindow(_, _)
WithinWindow(taps, now) ==
  IF taps = <<>> THEN <<>>
  ELSE IF now - taps[1] <= ESC_TAP_WINDOW
    THEN <<taps[1]>> \o WithinWindow(SubSeq(taps, 2, Len(taps)), now)
    ELSE WithinWindow(SubSeq(taps, 2, Len(taps)), now)

\* on_release(Key.esc), lines 319-326, with _check_esc_triple_tap: on the
\* third tap within the window stop_recording is entered when recording,
\* else should_exit is set and the listener stops.
OnReleaseEsc ==
  /\ th.kb.pc = "idle"
  /\ kbAlive
  /\ LET taps == WithinWindow(Append(esc_tap_times, clock), clock) IN
     IF Len(taps) >= ESC_TAP_COUNT
       THEN /\ esc_tap_times' = <<>>
            /\ esc_history' = <<>>
            /\ IF is_recording
                 THEN /\ th' = [th EXCEPT !.kb = [Idle EXCEPT !.pc = "stop_446"]]
                      /\ UNCHANGED <<should_exit, kbAlive>>
                 ELSE /\ should_exit' = TRUE
                      /\ kbAlive' = FALSE
                      /\ th' = th
       ELSE /\ esc_tap_times' = taps
            /\ esc_history' = Append(esc_history, clock)
            /\ UNCHANGED <<should_exit, kbAlive, th>>
  /\ UNCHANGED <<sessions, cur, is_recording, clock, mainPc, mouseAlive,
                 session, reduceVars, vlqVars, midiVars>>

\* stop_recording line 446.
StopRecording446 ==
  /\ th.kb.pc = "stop_446"
  /\ is_recording' = FALSE
  /\ th' = [th EXCEPT !.kb.pc = "stop_check", !.kb.k = 1]
  /\ UNCHANGED <<sessions, cur, should_exit, esc_tap_times, clock, mainPc,
                 kbAlive, mouseAlive, otherVars>>

\* A stop_recording that closes the held keys and not the mouse buttons.
StopRecordingTest_KeysOnly ==
  /\ th.kb.pc = "stop_check"
  /\ IF th.kb.k > 2
       THEN /\ th' = [th EXCEPT !.kb = Idle]
            /\ kbAlive' = FALSE
       ELSE /\ kbAlive' = kbAlive
            /\ IF sessions[cur][FlagOf(StopOrder[th.kb.k])]
                 THEN th' = [th EXCEPT
                               !.kb.pc = "add_clock",
                               !.kb.et = StopEventType(StopOrder[th.kb.k]),
                               !.kb.it = StopOrder[th.kb.k],
                               !.kb.ret = "stop"]
                 ELSE th' = [th EXCEPT !.kb.k = @ + 1]
  /\ UNCHANGED <<sessions, cur, is_recording, should_exit, esc_tap_times,
                 clock, mainPc, mouseAlive, otherVars>>

\* stop_recording lines 449, 452, 457, 460: the test of a down flag; after
\* the fourth, stop_recording and on_release return and the listener stops.
StopRecordingTest ==
  /\ th.kb.pc = "stop_check"
  /\ IF th.kb.k > Len(StopOrder)
       THEN /\ th' = [th EXCEPT !.kb = Idle]
            /\ kbAlive' = FALSE
       ELSE /\ kbAlive' = kbAlive
            /\ IF sessions[cur][FlagOf(StopOrder[th.kb.k])]
                 THEN th' = [th EXCEPT
                               !.kb.pc = "add_clock",
                               !.kb.et = StopEventType(StopOrder[th.kb.k]),
                               !.kb.it = StopOrder[th.kb.k],
                               !.kb.ret = "stop"]
                 ELSE th' = [th EXCEPT !.kb.k = @ + 1]
  /\ UNCHANGED <<sessions, cur, is_recording, should_exit, esc_tap_times,
                 clock, mainPc, mouseAlive, otherVars>>

\* stop_recording lines 451, 454, 459, 462: the flag is cleared after the
\* closing event was added.
StopRecordingClear ==
  /\ th.kb.pc = "stop_clear"
  /\ sessions' = [sessions EXCEPT ![cur][FlagOf(StopOrder[th.kb.k])] = FALSE]
  /\ th' = [th EXCEPT !.kb.pc = "stop_check", !.kb.k = @ + 1]
  /\ UNCHANGED <<cur, is_recording, should_exit, esc_tap_times, clock, mainPc,
                 kbAlive, mouseAlive, otherVars>>

\* on_click(x, y, button, pressed), lines 353-358 and 367-378: the guard and
\* the choice of the channel.
OnClick ==
  /\ CanDeliver("mouse")
  /\ \E button \in {"left", "right", "middle"}, pressed \in BOOLEAN :
       IF is_recording /\ button /= "middle"
         THEN th' = [th EXCEPT
                       !.mouse = [Idle EXCEPT
                                    !.pc = "click_test",
                                    !.et = "click",
                                    !.it = IF button = "left" THEN "left_click"
                                           ELSE "right_click",
                                    !.key = button,
                                    !.pressed = pressed,
                                    !.ret = "callback"]]
         ELSE th' = th
  /\ UNCHANGED <<sessions, cur, is_recording, should_exit, esc_tap_times,
                 clock, mainPc, kbAlive, mouseAlive, otherVars>>

\* on_click lines 360-361, 364-365 (370-371, 374-375): the test of the flag.
OnClickTest ==
  /\ th.mouse.pc = "click_test"
  /\ th' = [th EXCEPT
              !.mouse = IF sessions[cur][FlagOf(th.mouse.it)] = th.mouse.pressed
                          THEN Idle
                          ELSE [@ EXCEPT !.pc = "click_set"]]
  /\ UNCHANGED <<sessions, cur, is_recording, should_exit, esc_tap_times,
                 clock, mainPc, kbAlive, mouseAlive, otherVars>>

\* on_click lines 362, 366 (372, 376): the flag is written.
OnClickSet ==
  /\ th.mouse.pc = "click_set"
  /\ sessions' = [sessions EXCEPT ![cur][FlagOf(th.mouse.it)] = th.mouse.pressed]
  /\ th' = [th EXCEPT !.mouse.pc = "add_clock"]
  /\ UNCHANGED <<cur, is_recording, should_exit, esc_tap_times, clock, mainPc,
                 kbAlive, mouseAlive, otherVars>>

\* on_scroll(x, y, dx, dy), lines 385-394.
OnScroll ==
  /\ CanDeliver("mouse")
  /\ \E dy \in {-1, 0, 1} :
       IF is_recording /\ dy /= 0
         THEN th' = [th EXCEPT
                       !.mouse = [Idle EXCEPT
                                    !.pc = "add_clock",
                                    !.et = "scroll",
                                    !.it = IF dy > 0 THEN "scroll_up"
                                           ELSE "scroll_down",
                                    !.key = IF dy > 0 THEN "dy=1" ELSE "dy=-1",
                                    !.ret = "callback"]]
         ELSE th' = th
  /\ UNCHANGED <<sessions, cur, is_recording, should_exit, esc_tap_times,
                 clock, mainPc, kbAlive, mouseAlive, otherVars>>

\* (time.perf_counter() - self.start_time) * 1000
TimeMs(now, start_time) == (now - start_time) * 1000

\* self.session.add_event(...), line 62: the session object is bound and
\* the clock is read.
AddEventClock(x) ==
  /\ th[x].pc = "add_clock"
  /\ th' = [th EXCEPT ![x].pc = "add_append",
                      ![x].s = cur,
                      ![x].t = TimeMs(clock, sessions[cur].start_time)]
  /\ UNCHANGED <<sessions, cur, is_recording, should_exit, esc_tap_times,
                 clock, mainPc, kbAlive, mouseAlive, otherVars>>

\* add_event line 63: the append to the bound session's list; the callback
\* returns (or stop_recording goes on to clear the flag).
AddEventAppend(x) ==
  /\ th[x].pc = "add_append"
  /\ sessions' = [sessions EXCEPT
                    ![th[x].s].events =
                      Append(@, InputEventNamed(th[x].et, th[x].it, th[x].t,
                                                th[x].key))]
  /\ th' = [th EXCEPT ![x] = IF th[x].ret = "stop"
                               THEN [@ EXCEPT !.pc = "stop_clear"]
                               ELSE Idle]
  /\ UNCHANGED <<cur, is_recording, should_exit, esc_tap_times, clock, mainPc,
                 kbAlive, mouseAlive, otherVars>>

KbAddEventClock == AddEventClock("kb")
KbAddEventAppend == AddEventAppend("kb")
MouseAddEventClock == AddEventClock("mouse")
MouseAddEventAppend == AddEventAppend("mouse")

Next ==
  \/ Tick
  \/ StartRecording436
  \/ StartRecording437
  \/ StartRecording438
  \/ StartKeyboardListener
  \/ StartMouseListener
  \/ JoinKeyboardListener
  \/ StopMouseListener
  \/ OnPress
  \/ OnRelease
  \/ OnReleaseEsc
  \/ StopRecording446
  \/ StopRecordingTest
  \/ StopRecordingClear
  \/ OnClick
  \/ OnClickTest
  \/ OnClickSet
  \/ OnScroll
  \/ KbAddEventClock
  \/ KbAddEventAppend
  \/ MouseAddEventClock
  \/ MouseAddEventAppend

Spec == InitCapture /\ [][Next]_vars

(***************************************************************************)
(* Specification of the capture with the callbacks delivered one at a      *)
(* time: a listener delivers an event only when the callback of the other  *)
(* listener has returned, and main moves only between callbacks.           *)
(***************************************************************************)
NoCallback == th.kb.pc = "idle" /\ th.mouse.pc = "idle"

SerialStep ==
  /\ ~(th'.kb.pc /= "idle" /\ th'.mouse.pc /= "idle")
  /\ mainPc' /= mainPc => NoCallback

NextSerial ==
  \/ Tick /\ SerialStep
  \/ StartRecording436 /\ SerialStep
  \/ StartRecording437 /\ SerialStep
  \/ StartRecording438 /\ SerialStep
  \/ StartKeyboardListener /\ SerialStep
  \/ StartMouseListener /\ SerialStep
  \/ JoinKeyboardListener /\ SerialStep
  \/ StopMouseListener /\ SerialStep
  \/ OnPress /\ SerialStep
  \/ OnRelease /\ SerialStep
  \/ OnReleaseEsc /\ SerialStep
  \/ StopRecording446 /\ SerialStep
  \/ StopRecordingTest /\ SerialStep
  \/ StopRecordingClear /\ SerialStep
  \/ OnClick /\ SerialStep
  \/ OnClickTest /\ SerialStep
  \/ OnClickSet /\ SerialStep
  \/ OnScroll /\ SerialStep
  \/ KbAddEventClock /\ SerialStep
  \/ KbAddEventAppend /\ SerialStep
  \/ MouseAddEventClock /\ SerialStep
  \/ MouseAddEventAppend /\ SerialStep

SpecSerial == InitCapture /\ [][NextSerial]_vars

(***************************************************************************)
(* Claims about the reducer, checked under SpecReduce.                     *)
(***************************************************************************)
Events == session.events

\* The events are in non-decreasing time_ms order.
NonDecreasing(events) ==
  \A i \in 1 .. Len(events) - 1 : events[i].time_ms <= events[i + 1].time_ms

\* The positions of the returned list that hold a note of channel it.
NotesOf(ns, it) == {i \in 1 .. Len(ns) : ns[i].input_type = it}

\* The locals before the iteration that has just run (idx - 1).
LocBefore == LoopAfter(Events, idx - 2)

JustRan(et) ==
  /\ gnPc = "loop"
  /\ idx > 1
  /\ Events[idx - 1].event_type = et

\* C1: a down event on a channel that already has a pending open start is
\* ignored and leaves the pending start as it was, and a list
\* [down(k,t1), down(k,t2), up(k,t3)] yields exactly one interval {k,t1,t3}.
C1_RepeatSuppression ==
  /\ JustRan("keydown") /\ LocBefore.pending[Events[idx - 1].input_type] /= None
       => loc.pending = LocBefore.pending
  /\ ( /\ gnPc = "done"
       /\ Len(Events) = 3
       /\ Events[1].event_type = "keydown"
       /\ Events[2].event_type = "keydown"
       /\ Events[3].event_type = "keyup"
       /\ Events[1].input_type = Events[2].input_type
       /\ Events[2].input_type = Events[3].input_type )
       => /\ Len(result) = 1
          /\ result[1].input_type = Events[1].input_type
          /\ result[1].start = Events[1].time_ms
          /\ result[1].end = Events[3].time_ms

\* The spec's example of forced closing, through get_notes.
C2_Example ==
  LET r == get_notes(<<InputEvent("keydown", "space", 0),
                       InputEvent("keyup", "space", 100),
                       InputEvent("keydown", "space", 150)>>)
  IN /\ Len(r) = 2
     /\ r[1].input_type = "space" /\ r[1].start = 0 /\ r[1].end = 100
     /\ r[2].input_type = "space" /\ r[2].start = 150 /\ r[2].end = 150

\* C2: when get_notes returns, every channel that still held an open start
\* after the last event has exactly one interval in the result that starts
\* at that pending start and ends at the offset of the last event, every
\* other returned interval is one the loop closed, and the spec's example
\* yields [{space,0,100}, {space,150,150}].
C2_ReducerTotality ==
  gnPc = "done" =>
    /\ \A k \in DOMAIN loc.pending :
         LET held == loc.pending[k] /= None
             forced == {i \in NotesOf(result, k) :
                          result[i].src = loc.psrc[k]}
         IN /\ Cardinality(NotesOf(result, k))
                 = Cardinality(NotesOf(loc.notes, k)) + (IF held THEN 1 ELSE 0)
            /\ held =>
                 /\ Cardinality(forced) = 1
                 /\ \A i \in forced :
                      /\ result[i].start = loc.pending[k][1]
                      /\ result[i].end = FinalTime(Events)
    /\ Len(result)
         = Len(loc.notes)
             + Cardinality({k \in DOMAIN loc.pending : loc.pending[k] /= None})
    /\ C2_Example

\* A down, its up and a second down of the same channel that stays open.
C2_Witness ==
  /\ gnPc = "done"
  /\ Len(Events) = 3
  /\ Events[1] = InputEvent("keydown", "space", 0)
  /\ Events[2] = InputEvent("keyup", "space", 1)
  /\ Events[3] = InputEvent("keydown", "space", 1)
  /\ Len(result) = 2
  /\ result[2].start = 1 /\ result[2].end = 1

\* C7: for an event list in non-decreasing time order, every returned
\* interval has end >= start.
C7_WellFormed ==
  (gnPc = "done" /\ NonDecreasing(Events)) =>
    \A i \in 1 .. Len(result) : result[i].end >= result[i].start

\* An ordered list of two keys pressed at 0 and 1 and never released, and a
\* scroll: two intervals closed by force at the last offset and a pulse.
C7_Witness ==
  /\ gnPc = "done"
  /\ NonDecreasing(Events)
  /\ Len(Events) = 3
  /\ Events[1].event_type = "keydown" /\ Events[1].time_ms = 0
  /\ Events[2].event_type = "keydown" /\ Events[2].time_ms = 1
  /\ Events[1].input_type /= Events[2].input_type
  /\ Events[3].event_type = "scroll"
  /\ Len(result) = 3

\* C8: the intervals of each channel are returned in non-decreasing start
\* order, and two of equal start in the order of the events that started
\* them.
C8_OutputOrder ==
  gnPc = "done" =>
    \A i, j \in 1 .. Len(result) :
      (i < j /\ result[i].input_type = result[j].input_type) =>
        /\ result[i].start <= result[j].start
        /\ result[i].start = result[j].start => result[i].src < result[j].src

\* Two intervals of one channel with equal start, after a later-starting
\* interval was appended before an earlier-starting one.
C8_Witness ==
  /\ gnPc = "done"
  /\ Len(result) = 3
  /\ \E i, j \in 1 .. 3 :
       /\ i < j
       /\ result[i].input_type = result[j].input_type
       /\ result[i].start = result[j].start
  /\ \E i \in 1 .. Len(loc.notes) - 1 : loc.notes[i].start > loc.notes[i + 1].start

\* C10: a scroll event at offset t appends the interval {channel, t, t + 50}
\* and leaves the pending map as it was, whatever the map holds; the
\* returned list holds exactly one interval per scroll event, that of its
\* offset, so two scrolls of one channel yield two intervals.
C10_Pulse ==
  /\ JustRan("scroll") =>
       LET e == Events[idx - 1] IN
       /\ loc.pending = LocBefore.pending
       /\ Len(loc.notes) = Len(LocBefore.notes) + 1
       /\ SubSeq(loc.notes, 1, Len(LocBefore.notes)) = LocBefore.notes
       /\ loc.notes[Len(loc.notes)]
            = Note(e.input_type, e.time_ms, e.time_ms + 50, idx - 1)
  /\ gnPc = "done" =>
       \A n \in 1 .. Len(Events) :
         Events[n].event_type = "scroll" =>
           /\ Cardinality({i \in 1 .. Len(result) : result[i].src = n}) = 1
           /\ \A i \in 1 .. Len(result) :
                result[i].src = n =>
                  /\ result[i].input_type = Events[n].input_type
                  /\ result[i].start = Events[n].time_ms
                  /\ result[i].end = Events[n].time_ms + 50

\* Two scrolls of one channel 1 ms apart while a key is held: two
\* overlapping intervals and the key's pending start untouched.
C10_Witness ==
  /\ gnPc = "done"
  /\ Len(Events) = 3
  /\ Events[1] = InputEvent("keydown", "space", 0)
  /\ Events[2] = InputEvent("scroll", "scroll_up", 0)
  /\ Events[3] = InputEvent("scroll", "scroll_up", 1)
  /\ loc.pending["space"] = <<0>>
  /\ Len(result) = 3
  /\ \E i, j \in 1 .. 3 :
       /\ result[i].input_type = "scroll_up" /\ result[i].start = 0
       /\ result[i].end = 50
       /\ result[j].input_type = "scroll_up" /\ result[j].start = 1
       /\ result[j].end = 51

\* C11: a keyup on a channel with no pending start appends no interval and
\* leaves the pending map as it was; a keyup on a channel with a pending
\* start appends exactly one interval {channel, start = pending, end = the
\* offset of the keyup} and clears the pending start of that channel only.
C11_OrphanRelease ==
  JustRan("keyup") =>
    LET e == Events[idx - 1]
        before == LocBefore
    IN IF PendingGet(before.pending, e.input_type) = None
         THEN /\ loc.notes = before.notes
              /\ loc.pending = before.pending
         ELSE /\ Len(loc.notes) = Len(before.notes) + 1
              /\ SubSeq(loc.notes, 1, Len(before.notes)) = before.notes
              /\ loc.notes[Len(loc.notes)].input_type = e.input_type
              /\ loc.notes[Len(loc.notes)].start
                   = before.pending[e.input_type][1]
              /\ loc.notes[Len(loc.notes)].end = e.time_ms
              /\ loc.pending[e.input_type] = None
              /\ \A k \in DOMAIN before.pending \ {e.input_type} :
                   loc.pending[k] = before.pending[k]
              /\ DOMAIN loc.pending = DOMAIN before.pending

\* A keyup of space closes the interval of space while other is still held.
C11_Witness ==
  /\ gnPc = "loop"
  /\ idx = 4
  /\ Events[1] = InputEvent("keydown", "space", 0)
  /\ Events[2] = InputEvent("keydown", "other", 0)
  /\ Events[3] = InputEvent("keyup", "space", 1)
  /\ loc.notes = <<Note("space", 0, 1, 1)>>
  /\ loc.pending["space"] = None
  /\ loc.pending["other"] = <<0>>

\* The indices of the click events of channel c, in increasing order.
RECURSIVE ClicksOf(_, _, _)
ClicksOf(events, c, n) ==
  IF n = 0 THEN <<>>
  ELSE IF events[n].event_type = "click" /\ events[n].input_type = c
    THEN Append(ClicksOf(events, c, n - 1), n)
    ELSE ClicksOf(events, c, n - 1)

\* C21: get_notes takes the 1st, 3rd, ... click of a mouse channel as a
\* press and the 2nd, 4th, ... as its release.  A click iteration on a
\* channel with nothing pending opens that channel at the click's offset and
\* appends nothing; on a channel with a pending start it appends one
\* interval from the pending start to the click's offset and clears that
\* channel; in both cases every other channel's pending start is left as it
\* was.  In the returned list every pair of clicks (2j-1, 2j) of a channel
\* has exactly one interval, from the offset of the first to the offset of
\* the second, and the channel has one interval per pair (and one more for
\* a last unpaired click).
C21_ClickPairing ==
  /\ JustRan("click") =>
       LET e == Events[idx - 1]
           c == e.input_type
           before == LocBefore
           nth == Len(ClicksOf(Events, c, idx - 1))
       IN /\ (before.pending[c] = None) <=> (nth % 2 = 1)
          /\ \A k \in DOMAIN before.pending \ {c} :
               loc.pending[k] = before.pending[k]
          /\ IF nth % 2 = 1
               THEN /\ loc.pending[c] = <<e.time_ms>>
                    /\ loc.notes = before.notes
               ELSE /\ loc.pending[c] = None
                    /\ loc.notes
                         = Append(before.notes,
                                  Note(c, before.pending[c][1], e.time_ms,
                                       before.psrc[c]))
  /\ gnPc = "done" =>
       \A c \in {"left_click", "right_click"} :
         LET cl == ClicksOf(Events, c, Len(Events)) IN
         /\ Cardinality(NotesOf(result, c)) = (Len(cl) + 1) \div 2
         /\ \A j \in 1 .. Len(cl) \div 2 :
              /\ Cardinality({i \in NotesOf(result, c) :
                                result[i].src = cl[2 * j - 1]}) = 1
              /\ \A i \in NotesOf(result, c) :
                   result[i].src = cl[2 * j - 1] =>
                     /\ result[i].start = Events[cl[2 * j - 1]].time_ms
                     /\ result[i].end = Events[cl[2 * j]].time_ms

\* A left button pressed, the right button pressed while it is held, and
\* the left button released: the right click closes nothing of the left.
C21_Witness ==
  /\ gnPc = "done"
  /\ Events = <<InputEvent("click", "left_click", 0),
                InputEvent("click", "right_click", 0),
                InputEvent("click", "left_click", 1)>>
  /\ \E i \in 1 .. Len(result) : result[i] = Note("left_click", 0, 1, 1)
  /\ \E i \in 1 .. Len(result) : result[i] = Note("right_click", 0, 1, 2)
  /\ Len(result) = 2

(***************************************************************************)
(* Claims about encode_vlq, checked under SpecVlq.                         *)
(***************************************************************************)
\* The value of a variable-length quantity: 7 bits per byte, the first byte
\* the most significant.
RECURSIVE VlqDecode(_, _)
VlqDecode(bytes, acc) ==
  IF bytes = <<>> THEN acc
  ELSE VlqDecode(SubSeq(bytes, 2, Len(bytes)), acc * 128 + (bytes[1] % 128))

\* C4: for a non-negative v, encode_vlq(v) is the big-endian base-128
\* encoding of v: every byte but the last has the high bit set, the last has
\* it clear, there is no leading empty group, decoding yields v, and 0, 127,
\* 128, 16383, 16384 encode as 00, 7F, 81 00, FF 7F, 81 80 00.
C4_Vlq ==
  vlqPc = "ret" =>
    /\ Len(vlqBytes) >= 1
    /\ \A i \in 1 .. Len(vlqBytes) : vlqBytes[i] \in 0 .. 255
    /\ \A i \in 1 .. Len(vlqBytes) - 1 : vlqBytes[i] >= 128
    /\ vlqBytes[Len(vlqBytes)] < 128
    /\ Len(vlqBytes) > 1 => vlqBytes[1] /= 128
    /\ VlqDecode(vlqBytes, 0) = vlqValue
    /\ vlqValue = 0 => vlqBytes = <<0>>
    /\ vlqValue = 127 => vlqBytes = <<127>>
    /\ vlqValue = 128 => vlqBytes = <<129, 0>>
    /\ vlqValue = 16383 => vlqBytes = <<255, 127>>
    /\ vlqValue = 16384 => vlqBytes = <<129, 128, 0>>

\* encode_vlq has returned the three bytes of 16384.
C4_Witness ==
  /\ vlqPc = "ret"
  /\ vlqValue = 16384
  /\ vlqBytes = <<129, 128, 0>>

(***************************************************************************)
(* Claims about generate_midi and export_files, checked under SpecMidi.    *)
(***************************************************************************)
\* C3: a call of generate_midi or export_files with tempo <= 0 or a velocity
\* outside 1..127 raises an error before any encoding work is done (no
\* build_track call was made) and before any file is written; it returns
\* no bytes.
C3_ConfigValidation ==
  ( /\ midiPc /= "idle"
    /\ midiOut /= NoCall
    /\ \/ midiArgs.tempo <= 0
       \/ midiArgs.velocity \notin 1 .. 127 )
    => /\ midiPc = "raised"
       /\ midiOut.status /= "ok"
       /\ midiOut.data = <<>>
       /\ midiOut.tracks = <<>>
       /\ files = {}

\* C9: in every track that build_track built, the events are in
\* non-decreasing tick order, the delta passed to encode_vlq for an event is
\* its tick less the tick of the event before it (less 0 for the first), and
\* no delta is negative; events of one tick have delta 0.
C9_NonNegativeDelta ==
  midiPc /= "idle" =>
    \A k \in 1 .. Len(midiOut.tracks) :
      LET tr == midiOut.tracks[k] IN
      /\ \A i \in 1 .. Len(tr.events) - 1 :
           tr.events[i].time <= tr.events[i + 1].time
      /\ \A i \in 1 .. Len(tr.deltas) :
           /\ tr.deltas[i]
                = tr.events[i].time
                    - (IF i = 1 THEN 0 ELSE tr.events[i - 1].time)
           /\ tr.deltas[i] >= 0
           /\ (i > 1 /\ tr.events[i].time = tr.events[i - 1].time)
                => tr.deltas[i] = 0

\* Big-endian fields of a byte sequence, read at position p.
U16(data, p) == data[p] * 256 + data[p + 1]

U32(data, p) ==
  data[p] * 16777216 + data[p + 1] * 65536 + data[p + 2] * 256 + data[p + 3]

\* The chunks of a file from position p on, as a reader finds them: MTrk, a
\* 4-byte length and that many bytes of body.  A chunk that does not begin
\* with MTrk or runs past the end of the file is [ok |-> FALSE] and ends
\* the reading.
RECURSIVE ReadChunks(_, _)
ReadChunks(data, p) ==
  IF p = Len(data) + 1 THEN <<>>
  ELSE IF \/ p + 7 > Len(data)
          \/ SubSeq(data, p, p + 3) /= <<77, 84, 114, 107>>
          \/ p + 7 + U32(data, p + 4) > Len(data)
    THEN <<[ok |-> FALSE, body |-> <<>>]>>
  ELSE <<[ok |-> TRUE, body |-> SubSeq(data, p + 8, p + 7 + U32(data, p + 4))]>>
         \o ReadChunks(data, p + 8 + U32(data, p + 4))

\* generate_midi has returned bytes.
MidiReturned == midiPc = "returned" /\ midiOut.status = "ok"

\* C12: the bytes generate_midi returns begin with MThd, length 6, format 1,
\* a track count and division 480; the track count is 1 + the number of
\* channels (7) and the number of MTrk chunks that follow; the chunks fill
\* the rest of the file exactly, each with a length field equal to the
\* length of its body; the first body is the tempo track and the others are
\* the channel tracks in the order built.
C12_Header ==
  MidiReturned =>
    LET d == midiOut.data
        cs == ReadChunks(d, 15)
    IN /\ Len(d) >= 14
       /\ SubSeq(d, 1, 4) = <<77, 84, 104, 100>>
       /\ U32(d, 5) = 6
       /\ U16(d, 9) = 1
       /\ U16(d, 11) = 1 + Cardinality(InputTypes)
       /\ U16(d, 13) = 480
       /\ U16(d, 11) = Len(cs)
       /\ \A k \in 1 .. Len(cs) : cs[k].ok
       /\ SubSeq(cs[1].body, 1, 9) = <<0, 255, 3, 5, 84, 101, 109, 112, 111>>
       /\ Len(midiOut.tracks) = Len(cs) - 1
       /\ \A k \in 1 .. Len(midiOut.tracks) :
            cs[k + 1].body = midiOut.tracks[k].data

\* A file with a scroll note and a key left held: two tracks with note
\* events, so chunks of different lengths.
C12_Witness ==
  /\ MidiReturned
  /\ midiArgs = [tempo |-> 120, velocity |-> 100]
  /\ Events = <<InputEvent("scroll", "scroll_up", 0),
                InputEvent("keydown", "space", 250)>>
  /\ Len(ReadChunks(midiOut.data, 15)) = 7
  /\ Len(midiOut.tracks[2].data) /= Len(midiOut.tracks[5].data)
  /\ Len(midiOut.tracks[1].data) < Len(midiOut.tracks[5].data)

\* A variable-length quantity read at position p: [ok, value, next].
RECURSIVE ReadVlq(_, _, _)
ReadVlq(data, p, acc) ==
  IF p > Len(data) THEN [ok |-> FALSE, value |-> acc, next |-> p]
  ELSE IF data[p] >= 128 THEN ReadVlq(data, p + 1, acc * 128 + data[p] - 128)
  ELSE [ok |-> TRUE, value |-> acc * 128 + data[p], next |-> p + 1]

\* n channel events read from position p on, each a delta and three bytes;
\* tick is the time of the event before.  [ok, evs, next], an event of evs
\* being <<tick, status, data1, data2>>.
RECURSIVE ReadEvents(_, _, _, _, _)
ReadEvents(data, p, n, tick, evs) ==
  IF n = 0 THEN [ok |-> TRUE, evs |-> evs, next |-> p]
  ELSE LET v == ReadVlq(data, p, 0) IN
       IF ~v.ok \/ v.next + 2 > Len(data)
         THEN [ok |-> FALSE, evs |-> evs, next |-> p]
         ELSE ReadEvents(data, v.next + 3, n - 1, tick + v.value,
                         Append(evs, <<tick + v.value, data[v.next],
                                       data[v.next + 1], data[v.next + 2]>>))

\* The note-on and note-off that the intervals ns call for.
RECURSIVE NoteEventsOf(_, _, _, _)
NoteEventsOf(ns, note_num, tempo, velocity) ==
  IF ns = <<>> THEN <<>>
  ELSE <<<<ms_to_ticks(ns[1].start, tempo), 144, note_num, velocity>>,
         <<ms_to_ticks(ns[1].end, tempo), 128, note_num, 0>>>>
       \o NoteEventsOf(SubSeq(ns, 2, Len(ns)), note_num, tempo, velocity)

\* Two sequences hold the same elements, each as many times.
SameBag(a, b) ==
  /\ Len(a) = Len(b)
  /\ \A x \in {a[i] : i \in 1 .. Len(a)} \cup {b[i] : i \in 1 .. Len(b)} :
       Cardinality({i \in 1 .. Len(a) : a[i] = x})
         = Cardinality({i \in 1 .. Len(b) : b[i] = x})

\* The body of channel track k has the structure of C13.
TrackBodyWellFormed(k) ==
  LET it == TrackOrder[k]
      body == midiOut.tracks[k].data
      name == TrackName(it)
      ns == NotesFor(get_notes(Events), it)
      r == ReadEvents(body, 5 + Len(name), 2 * Len(ns), 0, <<>>)
  IN /\ Len(body) >= 8 + Len(name)
     /\ SubSeq(body, 1, 4 + Len(name)) = <<0, 255, 3, Len(name)>> \o name
     /\ r.ok
     /\ r.next + 3 = Len(body)
     /\ SubSeq(body, r.next, r.next + 3) = <<0, 255, 47, 0>>
     /\ SameBag(r.evs, NoteEventsOf(ns, DefaultNote(it), midiArgs.tempo,
                                    midiArgs.velocity))

\* C13: in the bytes generate_midi returns, the body of the track of a
\* channel with n intervals is the track-name meta-event, then exactly 2n
\* note events, for each interval a note-on (0x90, note number, velocity)
\* at ticks(start) and a note-off (0x80, note number, 0) at ticks(end), the
\* time of an event being the sum of the deltas up to it, then the
\* end-of-track event 00 FF 2F 00 as the last four bytes.
C13_TrackBody ==
  MidiReturned =>
    \A k \in 1 .. Len(midiOut.tracks) : TrackBodyWellFormed(k)

\* The session of the full-pipeline scenario and its settings.
C14_Scenario ==
  /\ MidiReturned
  /\ Events = <<InputEvent("keydown", "space", 0),
                InputEvent("keyup", "space", 250)>>
  /\ midiArgs = [tempo |-> 120, velocity |-> 100]

\* C14: a session of one space press at 0 ms and its release at 250 ms,
\* encoded at 120 BPM with space note 36 and velocity 100, yields a Space
\* Key track whose note events are exactly 00 90 24 64, then 81 70 (the
\* delta 240) 80 24 00, then 00 FF 2F 00; every other channel track holds
\* its name and the end of track only.
C14_Pipeline ==
  C14_Scenario =>
    LET cs == ReadChunks(midiOut.data, 15) IN
    /\ Len(cs) = 7
    /\ \A k \in 1 .. 6 :
         cs[k + 1].body
           = <<0, 255, 3, Len(TrackName(TrackOrder[k]))>>
               \o TrackName(TrackOrder[k])
               \o (IF TrackOrder[k] = "space"
                     THEN <<0, 144, 36, 100, 129, 112, 128, 36, 0>>
                     ELSE <<>>)
               \o <<0, 255, 47, 0>>
    /\ encode_vlq(240) = <<129, 112>>
    /\ ms_to_ticks(250, 120) = 240

\* generate_midi has returned the file of the scenario.
C14_Witness ==
  /\ C14_Scenario
  /\ Len(midiOut.tracks[2].data) = 26
  /\ Len(midiOut.tracks[1].data) = 18

\* C15: for every tempo with which generate_midi returns, the tempo track
\* holds, after its name, 00 FF 51 03 and exactly three bytes, the
\* time-signature event following them; the three bytes are the big-endian
\* encoding of round(60,000,000 / tempo), so their value is that number; at
\* 120 BPM they are 07 A1 20.
C15_TempoMeta ==
  MidiReturned =>
    LET body == ReadChunks(midiOut.data, 15)[1].body IN
    /\ SubSeq(body, 10, 13) = <<0, 255, 81, 3>>
    /\ SubSeq(body, 17, 20) = <<0, 255, 88, 4>>
    /\ body[14] * 65536 + body[15] * 256 + body[16]
         = RoundHalfEven(60000000, midiArgs.tempo)
    /\ midiArgs.tempo = 120 => SubSeq(body, 14, 16) = <<7, 161, 32>>

\* The number of positions 1 .. p of sq that hold an element of kinds.
CountUpTo(sq, p, kinds) == Cardinality({i \in 1 .. p : sq[i] \in kinds})

\* C17: in every channel track of the bytes generate_midi returns, the
\* note-on of every interval comes before the note-off of that interval,
\* also when both are on one tick: in the sorted event list there is, for
\* the i-th interval of the channel, its "on" at an earlier position than
\* its "off", and in every prefix of the list, and of the status bytes
\* written, the note-ons are at least as many as the note-offs.
C17_OnBeforeOff ==
  MidiReturned =>
    \A k \in 1 .. Len(midiOut.tracks) :
      LET tr == midiOut.tracks[k]
          es == tr.events
          types == [i \in 1 .. Len(es) |-> es[i].type]
          ns == NotesFor(get_notes(Events), TrackOrder[k])
          r == ReadEvents(tr.data, 5 + Len(TrackName(TrackOrder[k])),
                          Len(es), 0, <<>>)
          written == [i \in 1 .. Len(r.evs) |-> r.evs[i][2]]
      IN /\ Len(es) = 2 * Len(ns)
         /\ \A i \in 1 .. Len(ns) :
              \E p, q \in 1 .. Len(es) :
                /\ p < q
                /\ es[p] = [time |-> ms_to_ticks(ns[i].start, midiArgs.tempo),
                            type |-> "on"]
                /\ es[q] = [time |-> ms_to_ticks(ns[i].end, midiArgs.tempo),
                            type |-> "off"]
         /\ \A p \in 0 .. Len(es) :
              CountUpTo(types, p, {"on"}) >= CountUpTo(types, p, {"off"})
         /\ r.ok
         /\ \A p \in 0 .. Len(r.evs) :
              CountUpTo(written, p, {144}) >= CountUpTo(written, p, {128})

(***************************************************************************)
(* Claims about repeated calls, checked under SpecPure.                    *)
(***************************************************************************)
\* C16: no step of get_notes or generate_midi changes the session (its
\* event list, start_time and the four down flags); a call of get_notes
\* after the first returns the list the call before it returned, and a
\* second call of generate_midi with the same settings has the outcome of
\* the first (the same bytes, or the same exception).
C16_Purity ==
  [][ /\ session' = session
      /\ (gnPc = "loop" /\ gnPc' = "done" /\ calls >= 1) => result' = result
      /\ (midiPc /= "again" /\ midiPc' = "again") => midiOut' = midiOut
    ]_vars

\* get_notes has returned two intervals twice, one of them closed by force,
\* and generate_midi has returned bytes twice.
C16_Witness ==
  /\ calls = 2
  /\ gnPc = "done"
  /\ Len(result) = 2
  /\ LoopAfter(Events, Len(Events)).pending["space"] /= None
  /\ midiPc = "again"
  /\ midiOut.status = "ok"

(***************************************************************************)
(* Claims about the capture, checked under Spec.                           *)
(***************************************************************************)
\* C5: in every reachable state of a recording, under any interleaving of
\* the keyboard and mouse callbacks, the events of a session are in
\* non-decreasing time_ms order.
C5_SessionOrdered ==
  \A s \in 1 .. Len(sessions) : NonDecreasing(sessions[s].events)

\* stop_recording runs: from line 446 to its return.
InStopRecording ==
  \/ th.kb.pc \in {"stop_446", "stop_check", "stop_clear"}
  \/ th.kb.pc \in {"add_clock", "add_append"} /\ th.kb.ret = "stop"

\* The recording into session s has stopped: stop_recording has returned.
Stopped(s) ==
  /\ s > 1
  /\ \/ s < cur
     \/ /\ s = cur
        /\ ~is_recording
        /\ ~InStopRecording
        /\ mainPc \notin {"start_437", "start_438"}

\* C6: a session is empty when start_recording returns; events are appended
\* to it only while the recording is active (is_recording is true, or
\* stop_recording is closing the held inputs); and once the recording has
\* stopped its event list never changes again, whatever the mouse listener's
\* callbacks do.
C6_Lifecycle ==
  [][ /\ (mainPc = "start_438" /\ mainPc' = "start_kb")
           => sessions'[cur'].events = <<>>
      /\ \A s \in 1 .. Len(sessions) :
           sessions'[s].events /= sessions[s].events
             => (is_recording \/ InStopRecording)
      /\ \A s \in 1 .. Len(sessions) :
           Stopped(s) => sessions'[s].events = sessions[s].events
    ]_vars

(***************************************************************************)
(* Claims about the capture with the callbacks delivered one at a time,    *)
(* checked under SpecSerial.                                               *)
(***************************************************************************)
Sustained == {"space", "other", "left_click", "right_click"}

\* The events of channel c, in the order recorded.
ChanEvents(events, c) ==
  LET OfChannel(e) == e.input_type = c IN SelectSeq(events, OfChannel)

\* Thread x is inside add_event.
Adding(x) == th[x].pc \in {"add_clock", "add_append"}

\* Thread x is recording a press: a keydown, or the click of on_click with
\* pressed true (stop_recording's click is a release).
AddingPress(x) ==
  \/ th[x].et = "keydown"
  \/ th[x].et = "click" /\ th[x].ret = "callback" /\ th[x].pressed

\* C18: with the callbacks delivered one at a time, the events recorded for
\* each sustained channel alternate press, release, press, ... from a press
\* on: the keyboard channels alternate keydown and keyup, and any event
\* being recorded on a channel is a press exactly when the channel holds an
\* even number of events (so a press on a channel whose last event is a
\* press records nothing); between callbacks a channel's down flag is true
\* exactly when its last recorded event is a press.
C18_Alternation ==
  /\ \A s \in 1 .. Len(sessions), c \in Sustained :
       LET ce == ChanEvents(sessions[s].events, c) IN
       /\ \A i \in 1 .. Len(ce) :
            ce[i].event_type
              = (IF c \in {"left_click", "right_click"} THEN "click"
                 ELSE IF i % 2 = 1 THEN "keydown" ELSE "keyup")
       /\ NoCallback => (sessions[s][FlagOf(c)] <=> Len(ce) % 2 = 1)
  /\ \A x \in DOMAIN th :
       (Adding(x) /\ th[x].it \in Sustained) =>
         LET s == IF th[x].pc = "add_clock" THEN cur ELSE th[x].s IN
         AddingPress(x)
           <=> Len(ChanEvents(sessions[s].events, th[x].it)) % 2 = 0

\* A left click pressed and released and a key pressed and held, between
\* callbacks.
C18_Witness ==
  /\ NoCallback
  /\ is_recording
  /\ Len(sessions[cur].events) = 3
  /\ Len(ChanEvents(sessions[cur].events, "left_click")) = 2
  /\ sessions[cur].events[3].event_type = "keydown"
  /\ sessions[cur].events[3].key_name = "Key.esc"
  /\ sessions[cur].other_down
  /\ ~sessions[cur].left_click_down

\* The last recorded event of channel c in the current session is a keydown
\* of the key named kn: the channel is held by that key.
HeldBy(c, kn) ==
  LET ce == ChanEvents(sessions[cur].events, c) IN
  /\ ce /= <<>>
  /\ ce[Len(ce)].event_type = "keydown"
  /\ ce[Len(ce)].key_name = kn

\* on_release(Key.esc) runs: _check_esc_triple_tap rewrites esc_tap_times.
EscReleased == esc_tap_times' /= esc_tap_times

\* on_release goes on to record a keyup on channel c, the flag cleared.
RecordsKeyup(c) ==
  /\ th'.kb.pc = "add_clock"
  /\ th'.kb.et = "keyup"
  /\ th'.kb.it = c
  /\ ~sessions'[cur][FlagOf(c)]

\* C19: while recording, between callbacks a keyboard channel held by a key
\* has its down flag set, so the release of that key passes on_release's
\* test; an on_release that records a keyup clears the channel's flag; and
\* the release of ESC, when ESC holds the other channel, records a keyup on
\* it and clears other_down as the release of any other key does (or enters
\* stop_recording, which closes the channel).
C19_ReleaseCloses ==
  [][ /\ (NoCallback /\ is_recording) =>
           \A c \in {"space", "other"}, key \in Keys :
             HeldBy(c, KeyName(key)) => sessions[cur][FlagOf(c)]
      /\ (th.kb.pc = "idle" /\ th'.kb.pc = "add_clock" /\ th'.kb.et = "keyup")
           => RecordsKeyup(th'.kb.it)
      /\ (EscReleased /\ is_recording /\ NoCallback
             /\ HeldBy("other", KeyName("esc")))
           => (RecordsKeyup("other") \/ th'.kb.pc = "stop_446")
    ]_vars

\* The events of a list that are of type et.
OfType(events, et) ==
  LET IsOfType(e) == e.event_type = et IN SelectSeq(events, IsOfType)

\* C20: with the callbacks delivered one at a time, once stop_recording has
\* returned all four down flags of the session are false and every
\* sustained channel has as many releases as presses recorded, so that
\* get_notes on it closes nothing by force and returns exactly one interval
\* per recorded press (keydown, or first click of a pair) and one per
\* scroll event.
C20_StopCloses ==
  \A s \in 1 .. Len(sessions) :
    Stopped(s) =>
      LET ev == sessions[s].events
          st == LoopAfter(ev, Len(ev))
      IN /\ \A c \in Sustained : ~sessions[s][FlagOf(c)]
         /\ \A c \in {"space", "other"} :
              Len(OfType(ChanEvents(ev, c), "keydown"))
                = Len(OfType(ChanEvents(ev, c), "keyup"))
         /\ \A c \in {"left_click", "right_click"} :
              Len(ChanEvents(ev, c)) % 2 = 0
         /\ \A k \in DOMAIN st.pending : st.pending[k] = None
         /\ get_notes(ev) = SortedByStart(st.notes)
         /\ 2 * Len(get_notes(ev))
              = 2 * Len(OfType(ev, "keydown")) + Len(OfType(ev, "click"))
                  + 2 * Len(OfType(ev, "scroll"))

\* stop_recording has returned after closing a held key and a held mouse
\* button: three callbacks recorded, two closing events added.
C20_Witness ==
  /\ Stopped(cur)
  /\ NoCallback
  /\ Len(sessions[cur].events) = 5
  /\ Len(OfType(sessions[cur].events, "scroll")) = 1
  /\ sessions[cur].events[4].event_type = "keyup"
  /\ sessions[cur].events[4].key_name = ""
  /\ sessions[cur].events[5].event_type = "click"
  /\ sessions[cur].events[5].key_name = ""
  /\ Len(get_notes(sessions[cur].events)) = 3

(***************************************************************************)
(* Claims about the triple tap, checked under Spec.                        *)
(***************************************************************************)
\* The ESC release at the present clock is the third within ESC_TAP_WINDOW:
\* two of the releases since the last clear are no older than the window.
ThirdInWindow ==
  Cardinality({i \in 1 .. Len(esc_history) :
                 clock - esc_history[i] <= ESC_TAP_WINDOW})
    >= ESC_TAP_COUNT - 1

\* C22: an ESC release while recording enters stop_recording exactly when
\* it is the third ESC release within the 1.0 s window since the tap
\* history was last cleared, and then the tap history is empty; any other
\* ESC release (a first or second one, or a third when the three do not
\* fall within the window) stops neither the recording nor the listener.
\* The recording stops only through that stop_recording, and the keyboard
\* listener stops when on_release returns from it (or when should_exit was
\* set, outside a recording).
C22_TripleTap ==
  [][ /\ EscReleased =>
           /\ is_recording => (th'.kb.pc = "stop_446" <=> ThirdInWindow)
           /\ ThirdInWindow => esc_tap_times' = <<>>
           /\ ~ThirdInWindow =>
                UNCHANGED <<kbAlive, is_recording, should_exit, th>>
      /\ (th.kb.pc /= "stop_446" /\ th'.kb.pc = "stop_446")
           => (EscReleased /\ ThirdInWindow)
      /\ (is_recording /\ ~is_recording') => th.kb.pc = "stop_446"
      /\ (kbAlive /\ ~kbAlive')
           => (th.kb.pc = "stop_check" \/ (should_exit' /\ ~is_recording))
      /\ (th.kb.pc = "stop_check" /\ th'.kb.pc = "idle") => ~kbAlive'
    ]_vars

\* stop_recording is entered on a third release at clock 2, after a release
\* at clock 0 that had left the window.
C22_Witness ==
  /\ th.kb.pc = "stop_446"
  /\ is_recording
  /\ esc_tap_times = <<>>
  /\ esc_history = <<>>
  /\ clock = 2
  /\ sessions[cur].start_time = 0

=============================================================================
